---- MODULE Spec2Model ----
(***************************************************************************)
(* Slack MCP server: the HTTP client (slack_api.py), the word-frequency    *)
(* analyzer built on it, and the five tools of slack-mcp_server.py.        *)
(*                                                                         *)
(* Python dicts are records; d.get(k, default) is Get(d, k, default).      *)
(* A str that the code only passes around (ids, tokens of an error text)   *)
(* is a TLA+ string; a str the code concatenates is a sequence of pieces;  *)
(* a message text, which the analyzer takes apart, is a sequence of        *)
(* characters, each character a one-element name ("h", " ", "U+C758" for   *)
(* the Hangul syllable of that code point).                                *)
(***************************************************************************)
EXTENDS Integers, Sequences, FiniteSets, TLC

VARIABLES slack_client, calls

vars == <<slack_client, calls>>

(***************************************************************************)
(* Bounds of the model.                                                    *)
(***************************************************************************)
\* concurrent tool invocations the host has in flight
MaxCalls == 2
\* messages in one conversations.history page of the analyzer specification
MaxBatch == 2
\* members in one users.list page
MaxMembers == 3

(***************************************************************************)
(* Python helpers.                                                         *)
(***************************************************************************)
Get(d, k, default) == IF k \in DOMAIN d THEN d[k] ELSE default

Min(a, b) == IF a < b THEN a ELSE b

Max(a, b) == IF a > b THEN a ELSE b

\* seq[:n], negative n counted from the end
SliceTo(seq, n) ==
    IF n >= 0 THEN SubSeq(seq, 1, Min(n, Len(seq)))
    ELSE SubSeq(seq, 1, Max(Len(seq) + n, 0))

RECURSIVE Sum(_, _)
Sum(f, n) == IF n = 0 THEN 0 ELSE f[n] + Sum(f, n - 1)

(***************************************************************************)
(* Characters.                                                             *)
(***************************************************************************)
LowerLetters ==
    <<"a", "b", "c", "d", "e", "f", "g", "h", "i", "j", "k", "l", "m",
      "n", "o", "p", "q", "r", "s", "t", "u", "v", "w", "x", "y", "z">>

UpperLetters ==
    <<"A", "B", "C", "D", "E", "F", "G", "H", "I", "J", "K", "L", "M",
      "N", "O", "P", "Q", "R", "S", "T", "U", "V", "W", "X", "Y", "Z">>

Digits == {"0", "1", "2", "3", "4", "5", "6", "7", "8", "9"}

\* the Hangul syllables that occur in the model's texts and stop words
Hangul ==
    {"U+AC00", "U+AC83", "U+ACE0", "U+ACFC", "U+ADF8", "U+B294", "U+B2C8",
     "U+B2E4", "U+B429", "U+B4F1", "U+B7F0", "U+B85C", "U+B97C", "U+BA74",
     "U+C11C", "U+C218", "U+C2B5", "U+C5D0", "U+C5EC", "U+C640", "U+C73C",
     "U+C740", "U+C744", "U+C758", "U+C774", "U+C785", "U+C788", "U+C800",
     "U+D558", "U+D55C", "U+D574", "U+C6B0", "U+B9AC"}

\* \s: blank, tab, line feed
IsSpace(c) == c \in {" ", "TAB", "LF"}

\* \w (Unicode): letters, digits, underscore; the Hangul syllables are letters
IsWord(c) ==
    \/ \E i \in 1..Len(LowerLetters) : c = LowerLetters[i] \/ c = UpperLetters[i]
    \/ c \in Digits
    \/ c = "_"
    \/ c \in Hangul

\* str.lower() of one character
Lower(c) ==
    IF \E i \in 1..Len(UpperLetters) : UpperLetters[i] = c
    THEN LowerLetters[CHOOSE i \in 1..Len(UpperLetters) : UpperLetters[i] = c]
    ELSE c

(***************************************************************************)
(* The text analyzer.                                                      *)
(***************************************************************************)
\* re.sub(r'[^\w\s..]', ' ', text)
StripPunctuation(text) ==
    [i \in 1..Len(text) |-> IF IsWord(text[i]) \/ IsSpace(text[i]) THEN text[i] ELSE " "]

\* re.sub(r'\s+', ' ', text)
RECURSIVE CollapseSpaces(_)
CollapseSpaces(text) ==
    IF text = <<>> THEN <<>>
    ELSE IF IsSpace(Head(text))
         THEN IF Len(text) >= 2 /\ IsSpace(text[2])
              THEN CollapseSpaces(Tail(text))
              ELSE <<" ">> \o CollapseSpaces(Tail(text))
         ELSE <<Head(text)>> \o CollapseSpaces(Tail(text))

\* text.lower()
LowerText(text) == [i \in 1..Len(text) |-> Lower(text[i])]

\* text.split(): the maximal runs of non-space characters; cur is the run
\* being read
RECURSIVE SplitFrom(_, _)
SplitFrom(text, cur) ==
    IF text = <<>> THEN (IF cur = <<>> THEN <<>> ELSE <<cur>>)
    ELSE IF IsSpace(Head(text))
         THEN (IF cur = <<>> THEN <<>> ELSE <<cur>>) \o SplitFrom(Tail(text), <<>>)
         ELSE SplitFrom(Tail(text), Append(cur, Head(text)))

Split(text) == SplitFrom(text, <<>>)

stop_words == {
    <<"U+C758">>, <<"U+AC00">>, <<"U+C774">>, <<"U+C740">>, <<"U+B294">>, <<"U+C744">>,
    <<"U+B97C">>, <<"U+C5D0">>, <<"U+C5D0", "U+C11C">>, <<"U+C73C", "U+B85C">>,
    <<"U+B85C">>, <<"U+ACFC">>, <<"U+C640">>, <<"U+D55C">>, <<"U+D558", "U+B294">>,
    <<"U+D558", "U+ACE0">>, <<"U+D574", "U+C11C">>, <<"U+D558", "U+C5EC">>,
    <<"U+D558", "U+BA74">>, <<"U+B429", "U+B2C8", "U+B2E4">>,
    <<"U+C788", "U+C2B5", "U+B2C8", "U+B2E4">>, <<"U+C785", "U+B2C8", "U+B2E4">>,
    <<"U+ADF8">>, <<"U+ADF8", "U+B7F0">>, <<"U+C774", "U+B7F0">>, <<"U+C800", "U+B7F0">>,
    <<"U+AC83">>, <<"U+C218">>, <<"U+B4F1">>, <<"t", "h", "e">>, <<"a">>, <<"a", "n">>,
    <<"a", "n", "d">>, <<"o", "r">>, <<"b", "u", "t">>, <<"i", "n">>, <<"o", "n">>,
    <<"a", "t">>, <<"t", "o">>, <<"f", "o", "r">>, <<"o", "f">>, <<"w", "i", "t", "h">>,
    <<"b", "y">>, <<"i", "s">>, <<"a", "r", "e">>, <<"w", "a", "s">>,
    <<"w", "e", "r", "e">>, <<"b", "e">>, <<"b", "e", "e", "n">>, <<"h", "a", "v", "e">>,
    <<"h", "a", "s">>, <<"h", "a", "d">>, <<"d", "o">>, <<"d", "o", "e", "s">>,
    <<"d", "i", "d">>, <<"w", "i", "l", "l">>, <<"w", "o", "u", "l", "d">>,
    <<"c", "o", "u", "l", "d">>, <<"s", "h", "o", "u", "l", "d">>, <<"m", "a", "y">>,
    <<"m", "i", "g", "h", "t">>, <<"c", "a", "n">>, <<"t", "h", "i", "s">>,
    <<"t", "h", "a", "t">>, <<"t", "h", "e", "s", "e">>, <<"t", "h", "o", "s", "e">>,
    <<"i">>, <<"y", "o", "u">>, <<"h", "e">>, <<"s", "h", "e">>, <<"i", "t">>,
    <<"w", "e">>, <<"t", "h", "e", "y">>, <<"m", "e">>, <<"h", "i", "m">>,
    <<"h", "e", "r">>, <<"u", "s">>, <<"t", "h", "e", "m">>}

\* a filter that kept only words longer than two characters
KeepWordLonger(word) == Len(word) > 2 /\ word \notin stop_words

\* len(word) >= 2 and word not in stop_words
KeepWord(word) == Len(word) >= 2 /\ word \notin stop_words

\* words = text.lower().split() after the two substitutions
Words(text) == Split(LowerText(CollapseSpaces(StripPunctuation(text))))

extract_words_from_text(text) ==
    IF text = <<>> THEN <<>>
    ELSE SelectSeq(Words(text), KeepWord)

\* the two conditions under which analyze_channel_word_frequency reads a message
Counted(message) ==
    /\ "text" \in DOMAIN message /\ Get(message, "type", "None") = "message"
    /\ Get(message, "bot_id", "") = "" /\ Get(message, "subtype", "") = ""

\* all_words after the loop over messages
RECURSIVE AllWords(_)
AllWords(messages) ==
    IF messages = <<>> THEN <<>>
    ELSE (IF Counted(Head(messages))
          THEN extract_words_from_text(Head(messages).text)
          ELSE <<>>) \o AllWords(Tail(messages))

\* Counter(all_words): the (word, count) items in insertion order
RECURSIVE Counter(_)
CounterAdd(items, w) ==
    IF \E i \in 1..Len(items) : items[i][1] = w
    THEN [i \in 1..Len(items) |->
            IF items[i][1] = w THEN <<w, items[i][2] + 1>> ELSE items[i]]
    ELSE Append(items, <<w, 1>>)

Counter(words) ==
    IF words = <<>> THEN <<>>
    ELSE CounterAdd(Counter(SubSeq(words, 1, Len(words) - 1)), words[Len(words)])

\* a sort that put an item in front of the items of its own count
InsertBeforeTies(sorted, item) ==
    LET k == Cardinality({i \in 1..Len(sorted) : sorted[i][2] > item[2]})
    IN  SubSeq(sorted, 1, k) \o <<item>> \o SubSeq(sorted, k + 1, Len(sorted))

\* sorted(items, key=count, reverse=True): stable, so an item goes behind
\* every item already placed whose count is at least its own
InsertByCount(sorted, item) ==
    LET k == Cardinality({i \in 1..Len(sorted) : sorted[i][2] >= item[2]})
    IN  SubSeq(sorted, 1, k) \o <<item>> \o SubSeq(sorted, k + 1, Len(sorted))

RECURSIVE most_common(_)
most_common(items) ==
    IF items = <<>> THEN <<>>
    ELSE InsertByCount(most_common(SubSeq(items, 1, Len(items) - 1)), items[Len(items)])

(***************************************************************************)
(* Exceptions.  An exception is [cls, msg]; str(e) is msg, a sequence of   *)
(* text pieces, so that an f-string is a concatenation.  The Korean        *)
(* prefixes of the source are romanised.                                   *)
(***************************************************************************)
\* the classes of the exceptions that can be raised under a tool, each with
\* its base classes
Bases(cls) ==
    CASE cls = "requests.ConnectionError" ->
            {"requests.ConnectionError", "requests.RequestException", "Exception"}
      [] cls = "requests.HTTPError" ->
            {"requests.HTTPError", "requests.RequestException", "Exception"}
      [] cls = "requests.JSONDecodeError" ->
            {"requests.JSONDecodeError", "requests.RequestException",
             "json.JSONDecodeError", "ValueError", "Exception"}
      [] cls = "json.JSONDecodeError" ->
            {"json.JSONDecodeError", "ValueError", "Exception"}
      [] OTHER -> {cls, "Exception"}

IsInstance(exc, base) == base \in Bases(exc.cls)

Raise(cls, msg) == [raised |-> TRUE, exc |-> [cls |-> cls, msg |-> msg]]

Return(value) == [raised |-> FALSE, value |-> value]

\* the class response.json() raises on a body that is not JSON: requests from
\* 2.27 on raises its own JSONDecodeError, older ones the json module's
JsonErrorClasses == {"requests.JSONDecodeError", "json.JSONDecodeError"}

(***************************************************************************)
(* SlackAPIClient.                                                         *)
(***************************************************************************)
\* the client after __init__
SlackAPIClient(bot_token) ==
    [bot_token |-> bot_token,
     base_url  |-> "https://slack.com/api",
     headers   |-> [Authorization |-> <<"Bearer ", bot_token>>,
                    ContentType   |-> "application/json; charset=utf-8"]]

\* the HTTP request _make_request builds
Request(client, endpoint, method, data) ==
    [url     |-> <<client.base_url, "/", endpoint>>,
     endpoint |-> endpoint,
     method  |-> method,
     headers |-> client.headers,
     data    |-> data]

\* a _make_request that sent its request a second time
SendsTwice(request) == <<request, request>>

\* what one _make_request puts on the wire: one requests.get or requests.post
Sends(request) == <<request>>

\* response.raise_for_status()
IsErrorStatus(status) == 400 <= status /\ status < 600

\* the body of the try block of _make_request on the transport's answer
TryRequest(resp) ==
    IF resp.kind = "refused"
    THEN Raise("requests.ConnectionError", <<resp.error>>)
    ELSE IF IsErrorStatus(resp.status)
    THEN Raise("requests.HTTPError", <<resp.reason>>)
    ELSE IF resp.body.kind = "text"
    THEN Raise(resp.body.raises, <<resp.body.error>>)
    ELSE IF resp.body.kind = "array"
    THEN Raise("AttributeError", <<"'list' object has no attribute 'get'">>)
    ELSE IF ~Get(resp.body.value, "ok", FALSE)
    THEN Raise("Exception",
               <<"Slack API oryu: ", Get(resp.body.value, "error", "Unknown error")>>)
    ELSE Return(resp.body.value)

\* the except clauses of _make_request, in the order of the source
ExceptClauses(out) ==
    IF ~out.raised THEN out
    ELSE IF IsInstance(out.exc, "requests.RequestException")
    THEN Raise("Exception", <<"HTTP yocheong silpae: ">> \o out.exc.msg)
    ELSE IF IsInstance(out.exc, "json.JSONDecodeError")
    THEN Raise("Exception", <<"JSON pasing silpae: ">> \o out.exc.msg)
    ELSE out

make_request(resp) == ExceptClauses(TryRequest(resp))

\* a get_channel_history without its clamp
HistoryLimitUnclamped(limit) == limit

\* get_channel_history: if limit > 100: limit = 100
HistoryLimit(limit) == IF limit > 100 THEN 100 ELSE limit

\* analyze_channel_word_frequency: if limit > 1000: limit = 1000, and the
\* min(limit, 100) of the call
AnalyzerLimit(limit) == Min(IF limit > 1000 THEN 1000 ELSE limit, 100)

send_message_request(client, channel, text) ==
    Request(client, "chat.postMessage", "POST", [channel |-> channel, text |-> text])

get_channels_request(client) ==
    Request(client, "conversations.list", "GET",
            [types |-> "public_channel,private_channel", exclude_archived |-> TRUE])

get_channel_history_request(client, channel_id, limit) ==
    Request(client, "conversations.history", "GET",
            [channel |-> channel_id, limit |-> HistoryLimit(limit)])

open_dm_channel_request(client, user_id) ==
    Request(client, "conversations.open", "POST", [users |-> user_id])

get_users_request(client) == Request(client, "users.list", "GET", <<>>)

\* an open_dm_channel that handed back the user id it was given
open_dm_channel_return_user(user_id, result) == Return(user_id)

\* return result['channel']['id']
open_dm_channel_return(user_id, result) ==
    IF "channel" \notin DOMAIN result THEN Raise("KeyError", <<"'channel'">>)
    ELSE IF "id" \notin DOMAIN result.channel THEN Raise("KeyError", <<"'id'">>)
    ELSE Return(result.channel.id)

\* a _make_request that dropped the JSON content type from self.headers
\* before a GET
make_request_self_get(client, method) ==
    IF method = "GET"
    THEN [client EXCEPT !.headers = [Authorization |-> client.headers.Authorization]]
    ELSE client

\* what _make_request does to the client object: it reads base_url and
\* headers and assigns neither
make_request_self(client, method) == client

\* return result.get('channels', []), .get('messages', []), .get('members', [])
get_channels_return(result) == Get(result, "channels", <<>>)

get_channel_history_return(result) == Get(result, "messages", <<>>)

get_users_return(result) == Get(result, "members", <<>>)

\* return word_counter.most_common()
analyze_return(messages) == most_common(Counter(AllWords(messages)))

\* round(x, 2) of x = 100 * count / total, in hundredths of a percent; the
\* quotient is rounded to the nearest, a tie to the even one
Round2(count, total) ==
    LET n == 10000 * count
        q == n \div total
        r == n % total
    IN  IF 2 * r > total \/ (2 * r = total /\ q % 2 = 1) THEN q + 1 ELSE q

\* a percentage of the words reported instead of the words analyzed
PercentageOfReported(count, total_words, top_words) ==
    LET reported == Sum([i \in 1..Len(top_words) |-> top_words[i][2]], Len(top_words))
    IN  IF reported > 0 THEN Round2(count, reported) ELSE 0

\* 'percentage': round((count / total_words) * 100, 2) if total_words > 0 else 0
Percentage(count, total_words, top_words) ==
    IF total_words > 0 THEN Round2(count, total_words) ELSE 0

\* the try block of get_top_words_in_channel
top_words_return(channel_id, top_n, message_limit, word_frequency) ==
    LET top_words   == SliceTo(word_frequency, top_n)
        total_words == Sum([i \in 1..Len(word_frequency) |-> word_frequency[i][2]],
                           Len(word_frequency))
    IN  [success    |-> TRUE,
         channel_id |-> channel_id,
         analysis_stats |->
             [total_words_analyzed |-> total_words,
              unique_words  |-> Len(word_frequency),
              message_limit |-> message_limit],
         top_words |->
             [i \in 1..Len(top_words) |->
                 [word  |-> top_words[i][1],
                  count |-> top_words[i][2],
                  percentage |-> Percentage(top_words[i][2], total_words, top_words)]]]

(***************************************************************************)
(* The tools of slack-mcp_server.py.                                       *)
(***************************************************************************)
Tools ==
    {"send_slack_message", "get_slack_channels", "get_slack_channel_history",
     "send_slack_direct_message", "get_slack_users"}

\* the client method a tool delegates to
Method(op) ==
    CASE op = "send_slack_message" -> "send_message"
      [] op = "get_slack_channels" -> "get_channels"
      [] op = "get_slack_channel_history" -> "get_channel_history"
      [] op = "send_slack_direct_message" -> "send_direct_message"
      [] op = "get_slack_users" -> "get_users"
      [] OTHER -> op

\* the text each except clause puts in front of str(e)
ErrorPrefix(op) ==
    CASE op = "send_slack_message" -> "mesiji jeonsong silpae: "
      [] op = "get_slack_channels" -> "chaeneol mongnok johoe silpae: "
      [] op = "get_slack_channel_history" -> "mesiji hiseutori johoe silpae: "
      [] op = "send_slack_direct_message" -> "dairekteu mesiji jeonsong silpae: "
      [] op = "get_slack_users" -> "sayongja mongnok johoe silpae: "
      [] op = "get_top_words_in_channel" -> "daneo bunseok silpae: "

\* a tool that caught only the transport's exceptions
CatchesRequestErrors(exc) == IsInstance(exc, "requests.RequestException")

\* except Exception as e
Catches(exc) == IsInstance(exc, "Exception")

channel_info(channel) ==
    [id         |-> Get(channel, "id", "None"),
     name       |-> Get(channel, "name", "None"),
     is_private |-> Get(channel, "is_private", FALSE),
     is_member  |-> Get(channel, "is_member", FALSE),
     topic      |-> Get(Get(channel, "topic", <<>>), "value", ""),
     purpose    |-> Get(Get(channel, "purpose", <<>>), "value", ""),
     num_members |-> Get(channel, "num_members", 0)]

message_info(message) ==
    [text      |-> Get(message, "text", <<>>),
     user      |-> Get(message, "user", ""),
     timestamp |-> Get(message, "ts", ""),
     type      |-> Get(message, "type", ""),
     subtype   |-> Get(message, "subtype", "")]

user_info(user) ==
    [id           |-> Get(user, "id", "None"),
     name         |-> Get(user, "name", "None"),
     real_name    |-> Get(user, "real_name", ""),
     display_name |-> Get(Get(user, "profile", <<>>), "display_name", ""),
     email        |-> Get(Get(user, "profile", <<>>), "email", ""),
     is_bot       |-> Get(user, "is_bot", FALSE),
     is_admin     |-> Get(user, "is_admin", FALSE)]

\* if not user.get('deleted', False)
Listed(user) == ~Get(user, "deleted", FALSE)

\* a total_count taken before the deleted users are dropped
UsersTotalCountAll(users, user_list) == Len(users)

\* total_count of get_slack_users
UsersTotalCount(users, user_list) == Len(user_list)

\* the try block of each tool, on the value its client method returned
ToolSuccess(op, args, value) ==
    CASE op = "send_slack_message" ->
            [success   |-> TRUE,
             message   |-> "mesijiga seonggongjeogeuro jeonsongdoeeotseumnida.",
             channel   |-> Get(value, "channel", "None"),
             timestamp |-> Get(value, "ts", "None"),
             text      |-> args.text]
      [] op = "get_slack_channels" ->
            LET channel_list == [i \in 1..Len(value) |-> channel_info(value[i])]
            IN  [success |-> TRUE, channels |-> channel_list,
                 total_count |-> Len(channel_list)]
      [] op = "get_slack_channel_history" ->
            LET message_list == [i \in 1..Len(value) |-> message_info(value[i])]
            IN  [success |-> TRUE, messages |-> message_list,
                 channel_id |-> args.channel_id,
                 message_count |-> Len(message_list)]
      [] op = "send_slack_direct_message" ->
            [success   |-> TRUE,
             message   |-> "dairekteu mesijiga seonggongjeogeuro jeonsongdoeeotseumnida.",
             user_id   |-> args.user_id,
             timestamp |-> Get(value, "ts", "None"),
             text      |-> args.text]
      [] op = "get_slack_users" ->
            LET kept      == SelectSeq(value, Listed)
                user_list == [i \in 1..Len(kept) |-> user_info(kept[i])]
            IN  [success |-> TRUE, users |-> user_list,
                 total_count |-> UsersTotalCount(value, user_list)]

\* a tool's except clause
ToolFailure(op, args, exc) ==
    [success |-> FALSE, error |-> <<ErrorPrefix(op)>> \o exc.msg]

\* what a tool hands to the host, given the outcome of its client method
ToolResult(op, args, out) ==
    IF ~out.raised THEN ToolSuccess(op, args, out.value)
    ELSE IF Catches(out.exc) THEN ToolFailure(op, args, out.exc)
    ELSE out

\* what a client method called directly hands to its caller, given the
\* outcome of get_channel_history
ClientResult(op, args, out) ==
    IF op = "analyze_channel_word_frequency"
    THEN (IF out.raised THEN out ELSE Return(analyze_return(out.value)))
    ELSE IF ~out.raised
         THEN top_words_return(args.channel_id, args.top_n, args.message_limit,
                               analyze_return(out.value))
         ELSE IF Catches(out.exc)
              THEN [success |-> FALSE,
                    error |-> <<ErrorPrefix(op)>> \o out.exc.msg,
                    channel_id |-> args.channel_id]
              ELSE out

(***************************************************************************)
(* One invocation.  A call runs from its start to its first request in one *)
(* step and, on each response, to its next request or to its return; the   *)
(* host may interleave the calls it has in flight at these points.         *)
(* requests and responses record what the call sent and received.          *)
(***************************************************************************)
IdleCall ==
    [pc |-> "idle", op |-> "", args |-> <<>>, stage |-> "",
     requests |-> <<>>, responses |-> <<>>, result |-> <<>>]

\* the first request of each operation
FirstRequest(client, op, args) ==
    CASE op = "send_slack_message" ->
            send_message_request(client, args.channel, args.text)
      [] op = "get_slack_channels" -> get_channels_request(client)
      [] op = "get_slack_channel_history" ->
            get_channel_history_request(client, args.channel_id, args.limit)
      [] op = "send_slack_direct_message" ->
            open_dm_channel_request(client, args.user_id)
      [] op = "get_slack_users" -> get_users_request(client)
      [] op = "analyze_channel_word_frequency" ->
            get_channel_history_request(client, args.channel_id,
                                        AnalyzerLimit(args.limit))
      [] op = "get_top_words_in_channel" ->
            get_channel_history_request(client, args.channel_id,
                                        AnalyzerLimit(args.message_limit))

Start(client, op, args) ==
    [pc |-> "waiting", op |-> op, args |-> args,
     stage |-> IF op = "send_slack_direct_message" THEN "open" ELSE "only",
     requests  |-> Sends(FirstRequest(client, op, args)),
     responses |-> <<>>, result |-> <<>>]

\* the value the client method of a one-request tool returns
MethodReturn(op, out) ==
    IF out.raised THEN out
    ELSE CASE op = "get_slack_channels" -> Return(get_channels_return(out.value))
           [] op = "get_slack_channel_history" ->
                 Return(get_channel_history_return(out.value))
           [] op = "get_slack_users" -> Return(get_users_return(out.value))
           [] OTHER -> out

Finish(call, resp, result) ==
    [call EXCEPT !.pc = "done", !.responses = Append(@, resp), !.result = result]

\* send_direct_message after the answer to conversations.open
AfterOpen(client, call, resp) ==
    LET out    == make_request(resp)
        opened == IF out.raised THEN out
                  ELSE open_dm_channel_return(call.args.user_id, out.value)
    IN  IF opened.raised
        THEN Finish(call, resp, ToolResult(call.op, call.args, opened))
        ELSE [call EXCEPT
                !.stage = "post",
                !.responses = Append(@, resp),
                !.requests = @ \o Sends(send_message_request(client, opened.value,
                                                             call.args.text))]

Resume(client, call, resp) ==
    IF call.stage = "open" THEN AfterOpen(client, call, resp)
    ELSE IF call.op \in Tools
    THEN Finish(call, resp,
                ToolResult(call.op, call.args, MethodReturn(call.op, make_request(resp))))
    ELSE Finish(call, resp,
                ClientResult(call.op, call.args,
                             IF make_request(resp).raised THEN make_request(resp)
                             ELSE Return(get_channel_history_return(
                                             make_request(resp).value))))

\* the request a call is waiting on
Pending(call) == call.requests[Len(call.responses) + 1]

Waiting(call) == call.pc = "waiting"

(***************************************************************************)
(* The remote service and the transport: what can come back.               *)
(***************************************************************************)
Http(status, reason, body) ==
    [kind |-> "response", status |-> status, reason |-> reason, body |-> body]

Json(value) == [kind |-> "object", value |-> value]

ErrorCodes == {"channel_not_found", "invalid_auth"}

Refused == [kind |-> "refused", error |-> "Connection refused"]

BadStatus == Http(503, "503 Server Error: Service Unavailable", [kind |-> "array"])

NotJson ==
    {Http(200, "OK", [kind |-> "text", raises |-> c,
                      error |-> "Expecting value: line 1 column 1 (char 0)"]) :
        c \in JsonErrorClasses}

NotAnObject == Http(200, "OK", [kind |-> "array"])

Rejected ==
    {Http(200, "OK", Json([ok |-> FALSE, error |-> e])) : e \in ErrorCodes}
    \cup {Http(200, "OK", Json([ok |-> FALSE]))}

Failures == {Refused, BadStatus, NotAnObject} \cup NotJson \cup Rejected

Accepted(value) == Http(200, "OK", Json(value))

SampleChannels ==
    <<[id |-> "C1", name |-> "general", is_member |-> TRUE,
       topic |-> [value |-> "news"], num_members |-> 3],
      [id |-> "C2", name |-> "dev", is_private |-> TRUE]>>

\* "hello hello world", "world test"
Text1 == <<"h", "e", "l", "l", "o", " ", "h", "e", "l", "l", "o", " ", "w", "o", "r", "l", "d">>
Text2 == <<"w", "o", "r", "l", "d", " ", "t", "e", "s", "t">>
\* stop words and single characters only, some in upper case
Text3 == <<"T", "h", "e", " ", "a", " ", "I", " ", "U+D558", "U+B294", " ", "U+AC83", " ", "x">>
\* "Hello, it's" line feed, tab "WORLD_1!"
Text4 == <<"H", "e", "l", "l", "o", ",", " ", "i", "t", "'", "s", "LF", "TAB",
           "W", "O", "R", "L", "D", "_", "1", "!">>
\* a two-syllable Hangul word that is no stop word, then "test"
Text5 == <<"U+C6B0", "U+B9AC", " ", "t", "e", "s", "t">>

Human(text) == [type |-> "message", user |-> "U1", ts |-> "1700000000.000100", text |-> text]

SampleMessages ==
    {Human(t) : t \in {Text1, Text2, Text3, Text4, Text5, <<>>}}
    \cup {[type |-> "message", bot_id |-> "B1", ts |-> "1700000000.000200", text |-> Text1],
          [type |-> "message", user |-> "U2", subtype |-> "channel_join",
           ts |-> "1700000000.000300", text |-> Text2],
          [type |-> "event", user |-> "U2", text |-> Text1],
          [type |-> "message", user |-> "U2", ts |-> "1700000000.000400"]}

SampleUsers ==
    {[id |-> "U1", name |-> "ann", real_name |-> "Ann", is_admin |-> TRUE,
      profile |-> [display_name |-> "ann", email |-> "ann@example.com"]],
     [id |-> "U2", name |-> "bob", deleted |-> TRUE],
     [id |-> "U3", name |-> "cat", deleted |-> FALSE, profile |-> [display_name |-> "cat"]],
     [id |-> "B1", name |-> "bot", is_bot |-> TRUE]}

RECURSIVE SeqsUpTo(_, _)
SeqsUpTo(S, n) ==
    IF n = 0 THEN {<<>>}
    ELSE SeqsUpTo(S, n - 1) \cup
         {Append(q, x) : q \in {r \in SeqsUpTo(S, n - 1) : Len(r) = n - 1}, x \in S}

\* the answers to a request when several calls are in flight
Answers(request) ==
    Failures \cup
    CASE request.endpoint = "chat.postMessage" ->
            {Accepted([ok |-> TRUE, channel |-> request.data.channel,
                       ts |-> "1700000000.000500"]),
             Accepted([ok |-> TRUE])}
      [] request.endpoint = "conversations.open" ->
            {Accepted([ok |-> TRUE, channel |-> [id |-> d]]) : d \in {"D1", "D2"}}
            \cup {Accepted([ok |-> TRUE])}
      [] request.endpoint = "conversations.list" ->
            {Accepted([ok |-> TRUE, channels |-> SampleChannels]), Accepted([ok |-> TRUE])}
      [] request.endpoint = "conversations.history" ->
            {Accepted([ok |-> TRUE, messages |-> <<Human(Text2)>>]), Accepted([ok |-> TRUE])}
      [] request.endpoint = "users.list" ->
            {Accepted([ok |-> TRUE, members |-> m]) : m \in SeqsUpTo(SampleUsers, 1)}

\* the pages a single call is answered with
Pages(request) ==
    {Refused} \cup Rejected \cup
    CASE request.endpoint = "conversations.history" ->
            {Accepted([ok |-> TRUE, messages |-> m]) : m \in SeqsUpTo(SampleMessages, MaxBatch)}
            \cup {Accepted([ok |-> TRUE])}
      [] request.endpoint = "users.list" ->
            {Accepted([ok |-> TRUE, members |-> m]) : m \in SeqsUpTo(SampleUsers, MaxMembers)}
            \cup {Accepted([ok |-> TRUE])}

(***************************************************************************)
(* Arguments.                                                              *)
(***************************************************************************)
Limits == {-1, 0, 1, 10, 99, 100, 101, 1000, 1001, 5000}

AnalyzerLimits == {10, 100, 101, 1000, 1001}

TopNs == {-1, 0, 1, 2, 10}

ToolArgs(op) ==
    CASE op = "send_slack_message" ->
            {[channel |-> c, text |-> "hi"] : c \in {"C1", "#general"}}
      [] op = "get_slack_channels" -> {<<>>}
      [] op = "get_slack_channel_history" -> {[channel_id |-> "C1", limit |-> 10]}
      [] op = "send_slack_direct_message" -> {[user_id |-> "U1", text |-> "hi"]}
      [] op = "get_slack_users" -> {<<>>}

SingleArgs(op) ==
    CASE op = "get_slack_channel_history" ->
            {[channel_id |-> "C1", limit |-> l] : l \in Limits}
      [] op = "get_slack_users" -> {<<>>}
      [] op = "analyze_channel_word_frequency" ->
            {[channel_id |-> "C1", limit |-> l] : l \in AnalyzerLimits}
      [] op = "get_top_words_in_channel" ->
            {[channel_id |-> "C1", top_n |-> n, message_limit |-> 100] : n \in TopNs}
            \cup {[channel_id |-> "C1", top_n |-> 10, message_limit |-> 5000]}

(***************************************************************************)
(* Specifications.                                                         *)
(***************************************************************************)
Slots == 1..MaxCalls

Init ==
    /\ slack_client = SlackAPIClient("xoxb-token")
    /\ calls = [i \in Slots |-> IdleCall]

\* the host invokes a tool
Invoke(i, op, args) ==
    /\ calls[i].pc = "idle"
    /\ calls' = [calls EXCEPT ![i] = Start(slack_client, op, args)]
    /\ slack_client' = make_request_self(slack_client, Pending(calls'[i]).method)

\* the answer to the request a call waits on arrives
Respond(i, resp) ==
    /\ Waiting(calls[i])
    /\ calls' = [calls EXCEPT ![i] = Resume(slack_client, calls[i], resp)]
    /\ slack_client' = IF calls'[i].pc = "waiting"
                       THEN make_request_self(slack_client, Pending(calls'[i]).method)
                       ELSE slack_client

Next ==
    \E i \in Slots :
        \/ \E op \in Tools : \E args \in ToolArgs(op) : Invoke(i, op, args)
        \/ \E resp \in (IF Waiting(calls[i]) THEN Answers(Pending(calls[i])) ELSE {}) :
              Respond(i, resp)

Spec == Init /\ [][Next]_vars

\* one call at a time, answered with every page within the bounds
SingleOps ==
    {"get_slack_channel_history", "get_slack_users",
     "analyze_channel_word_frequency", "get_top_words_in_channel"}

NextSingle ==
    \/ \E op \in SingleOps : \E args \in SingleArgs(op) : Invoke(1, op, args)
    \/ \E resp \in (IF Waiting(calls[1]) THEN Pages(Pending(calls[1])) ELSE {}) :
          Respond(1, resp)

SpecSingle == Init /\ [][NextSingle]_vars

(***************************************************************************)
(* Vocabulary of the properties.                                           *)
(***************************************************************************)
Done(c) == c.pc = "done"

LastResponse(c) == c.responses[Len(c.responses)]

\* seq holds the pieces of sub, in order and adjacent
Contains(seq, sub) ==
    \E k \in 0..(Len(seq) - Len(sub)) : SubSeq(seq, k + 1, k + Len(sub)) = sub

\* the kinds of answer, told from the answer alone
TransportFailed(r) == r.kind = "refused" \/ IsErrorStatus(r.status)

BodyNotJson(r) == ~TransportFailed(r) /\ r.body.kind = "text"

RemoteRejected(r) ==
    /\ ~TransportFailed(r) /\ r.body.kind = "object"
    /\ ("ok" \notin DOMAIN r.body.value \/ r.body.value.ok = FALSE)

RemoteAccepted(r) ==
    /\ ~TransportFailed(r) /\ r.body.kind = "object"
    /\ "ok" \in DOMAIN r.body.value /\ r.body.value.ok = TRUE

\* the text of the failure an answer stands for
FailureText(r) ==
    IF r.kind = "refused" THEN r.error
    ELSE IF IsErrorStatus(r.status) THEN r.reason
    ELSE IF r.body.kind = "text" THEN r.body.error
    ELSE IF r.body.kind = "array" THEN "'list' object has no attribute 'get'"
    ELSE IF "error" \in DOMAIN r.body.value THEN r.body.value.error
    ELSE "Unknown error"

(***************************************************************************)
(* C1: every tool invocation that ends after a failure underneath it       *)
(* (refused connection, error status, body that is not JSON or not an      *)
(* object, ok = false, missing field) ends with a structured result whose  *)
(* success is False and whose error text contains the text of the failure; *)
(* no invocation ends with an exception; a rejection with error code E     *)
(* gives an error text that contains E.                                    *)
(***************************************************************************)
C1_ToolsContainFailures ==
    \A i \in Slots :
        LET c == calls[i] IN
        (Done(c) /\ c.op \in Tools) =>
            /\ "success" \in DOMAIN c.result
            /\ "raised" \notin DOMAIN c.result
            /\ ~RemoteAccepted(LastResponse(c)) =>
                  /\ c.result.success = FALSE
                  /\ Contains(c.result.error, <<FailureText(LastResponse(c))>>)
            /\ (RemoteRejected(LastResponse(c))
                    /\ "error" \in DOMAIN LastResponse(c).body.value) =>
                  Contains(c.result.error, <<LastResponse(c).body.value.error>>)
            /\ (c.op = "send_slack_direct_message" /\ Len(c.responses) = 1) =>
                  c.result.success = FALSE

C1_Witness ==
    \E i \in Slots :
        /\ Done(calls[i]) /\ calls[i].op = "send_slack_message"
        /\ LastResponse(calls[i]) = Http(200, "OK", Json([ok |-> FALSE, error |-> "channel_not_found"]))
        /\ calls[i].result =
              [success |-> FALSE,
               error |-> <<"mesiji jeonsong silpae: ", "Slack API oryu: ", "channel_not_found">>]

CategoryOf(r) ==
    IF TransportFailed(r) THEN "HTTP yocheong silpae: "
    ELSE IF BodyNotJson(r) THEN "JSON pasing silpae: "
    ELSE "Slack API oryu: "

Categories == {"HTTP yocheong silpae: ", "JSON pasing silpae: ", "Slack API oryu: "}

(***************************************************************************)
(* C2: a failed request is reported under the category of its kind and     *)
(* under no other: a transport failure (refused connection or error        *)
(* status) under the HTTP-failure text, a body that is not JSON under the  *)
(* JSON-parse-failure text, an ok = false answer under the API-failure     *)
(* text followed by the service's error code.                              *)
(***************************************************************************)
C2_DistinctCategories ==
    \A i \in Slots :
        LET c == calls[i] IN
        (Done(c) /\ c.op \in Tools
            /\ (TransportFailed(LastResponse(c)) \/ BodyNotJson(LastResponse(c))
                    \/ RemoteRejected(LastResponse(c)))) =>
            /\ c.result.success = FALSE
            /\ \A cat \in Categories :
                  Contains(c.result.error, <<cat>>) <=> cat = CategoryOf(LastResponse(c))
            /\ RemoteRejected(LastResponse(c)) =>
                  Contains(c.result.error, <<"Slack API oryu: ", FailureText(LastResponse(c))>>)

(***************************************************************************)
(* C3: send_direct_message sends conversations.open first; it sends        *)
(* chat.postMessage only once the open request has been answered with      *)
(* success, to the conversation id of that answer and with the caller's    *)
(* text; after a failed open it sends nothing more; after a failed post it *)
(* ends having sent these two requests and no other.                       *)
(***************************************************************************)
C3_OpenThenPost ==
    \A i \in Slots :
        LET c == calls[i] IN
        c.op = "send_slack_direct_message" =>
            /\ Len(c.requests) \in {1, 2}
            /\ c.requests[1].endpoint = "conversations.open"
            /\ c.requests[1].data = [users |-> c.args.user_id]
            /\ Len(c.requests) = 2 =>
                  /\ Len(c.responses) >= 1
                  /\ RemoteAccepted(c.responses[1])
                  /\ "channel" \in DOMAIN c.responses[1].body.value
                  /\ c.requests[2].endpoint = "chat.postMessage"
                  /\ c.requests[2].data =
                        [channel |-> c.responses[1].body.value.channel.id,
                         text |-> c.args.text]
            /\ (Len(c.responses) >= 1 /\ ~RemoteAccepted(c.responses[1])) =>
                  Done(c) /\ Len(c.requests) = 1 /\ c.result.success = FALSE
            /\ (Len(c.responses) = 2 /\ ~RemoteAccepted(c.responses[2])) =>
                  Done(c) /\ Len(c.requests) = 2 /\ c.result.success = FALSE

C3_Witness ==
    \E i \in Slots :
        /\ Done(calls[i]) /\ calls[i].op = "send_slack_direct_message"
        /\ Len(calls[i].requests) = 2
        /\ calls[i].responses[1] = Accepted([ok |-> TRUE, channel |-> [id |-> "D2"]])
        /\ calls[i].requests[2].data.channel = "D2"
        /\ RemoteRejected(calls[i].responses[2])

(***************************************************************************)
(* C4 as stated: every public method of the client sends exactly one       *)
(* request per invocation.                                                 *)
(***************************************************************************)
C4_OneRequestPerMethod ==
    \A i \in Slots : Done(calls[i]) => Len(calls[i].requests) = 1

(***************************************************************************)
(* C4 as amended: send_message, get_channels, get_channel_history,         *)
(* open_dm_channel and get_users send exactly one request per invocation;  *)
(* send_direct_message sends two, one conversations.open and one           *)
(* chat.postMessage, when the open resolves a conversation id and one      *)
(* otherwise; no request is sent again, and none is sent after a failure.  *)
(***************************************************************************)
C4_OneRequestPerStep ==
    \A i \in Slots :
        LET c == calls[i] IN
        c.pc # "idle" =>
            /\ Method(c.op) # "send_direct_message" => Len(c.requests) = 1
            /\ Method(c.op) = "send_direct_message" =>
                  /\ Len(c.requests) \in {1, 2}
                  /\ Cardinality({k \in 1..Len(c.requests) :
                                    c.requests[k].endpoint = "conversations.open"}) = 1
                  /\ Done(c) =>
                        (Len(c.requests) = 2 <=>
                            /\ RemoteAccepted(c.responses[1])
                            /\ "channel" \in DOMAIN c.responses[1].body.value)
            /\ \A a, b \in 1..Len(c.requests) : a # b => c.requests[a] # c.requests[b]
            /\ \A k \in 1..Len(c.responses) :
                  ~RemoteAccepted(c.responses[k]) => Done(c) /\ Len(c.requests) = k
            /\ Done(c) => Len(c.requests) = Len(c.responses)

C4_Witness ==
    \E i \in Slots :
        /\ Done(calls[i]) /\ calls[i].op = "send_slack_direct_message"
        /\ Len(calls[i].requests) = 2
        /\ calls[i].requests[1].endpoint = "conversations.open"
        /\ calls[i].requests[2].endpoint = "chat.postMessage"
        /\ TransportFailed(calls[i].responses[2])

Independent ==
    \A i, j \in Slots :
        (/\ calls[i].op = calls[j].op
         /\ calls[i].args = calls[j].args
         /\ calls[i].responses = calls[j].responses
         /\ calls[i].pc # "idle" /\ calls[j].pc # "idle") =>
            /\ calls[i].requests = calls[j].requests
            /\ calls[i].result = calls[j].result
            /\ calls[i].pc = calls[j].pc

ClientUntouched ==
    /\ slack_client.bot_token = "xoxb-token"
    /\ slack_client.base_url = "https://slack.com/api"
    /\ slack_client.headers =
          [Authorization |-> <<"Bearer ", "xoxb-token">>,
           ContentType |-> "application/json; charset=utf-8"]
    /\ \A i \in Slots : \A k \in 1..Len(calls[i].requests) :
          calls[i].requests[k].headers = slack_client.headers

(***************************************************************************)
(* C6: no step of any invocation changes the client's token, base URL or   *)
(* headers, and invocations in flight together do not influence each       *)
(* other: two invocations of the same operation with the same arguments    *)
(* that have received the same answers have sent the same requests and     *)
(* have the same result, whatever else ran in between.                     *)
(***************************************************************************)
C6_IndependentInvocations ==
    [][slack_client' = slack_client /\ ClientUntouched' /\ Independent']_vars

\* two direct messages in flight together and answered alike
C6_Witness ==
    /\ calls[1].op = "send_slack_direct_message" /\ Done(calls[1])
    /\ calls[2].op = "send_slack_direct_message" /\ Done(calls[2])
    /\ calls[1].responses = calls[2].responses
    /\ Len(calls[1].responses) = 2
    /\ calls[1].result = calls[2].result
    /\ calls[1].result.success = TRUE

(***************************************************************************)
(* Vocabulary of the properties of a single call.                          *)
(***************************************************************************)
\* the messages of the page a finished analyzer call was answered with
Batch(c) == Get(c.responses[1].body.value, "messages", <<>>)

Answered(c, op) == Done(c) /\ c.op = op /\ RemoteAccepted(c.responses[1])

\* a message the analyzer is to count, in the words of the claim
Eligible(m) ==
    /\ "text" \in DOMAIN m
    /\ "type" \in DOMAIN m /\ m.type = "message"
    /\ "bot_id" \notin DOMAIN m
    /\ "subtype" \notin DOMAIN m

\* the lower-cased tokens of the eligible messages of a batch, messages in
\* fetched order and tokens left to right
RECURSIVE TokensOf(_)
TokensOf(batch) ==
    IF batch = <<>> THEN <<>>
    ELSE (IF Eligible(Head(batch)) THEN Words(Head(batch).text) ELSE <<>>)
         \o TokensOf(Tail(batch))

Survives(w) == Len(w) >= 2 /\ w \notin stop_words

Occurrences(tokens, w) == Cardinality({k \in 1..Len(tokens) : tokens[k] = w})

\* the first place of w among the tokens
FirstPlace(tokens, w) ==
    CHOOSE k \in 1..Len(tokens) :
        tokens[k] = w /\ \A n \in 1..(k - 1) : tokens[n] # w

Hello == <<"h", "e", "l", "l", "o">>
World == <<"w", "o", "r", "l", "d">>
Test  == <<"t", "e", "s", "t">>

CallerLimit(c) ==
    IF c.op = "get_top_words_in_channel" THEN c.args.message_limit ELSE c.args.limit

C7_TableCountsSurvivors ==
    LET c == calls[1] IN
    Answered(c, "analyze_channel_word_frequency") =>
        LET table  == c.result.value
            batch  == Batch(c)
            tokens == TokensOf(batch)
        IN  /\ {table[k][1] : k \in 1..Len(table)} =
                  {tokens[k] : k \in {n \in 1..Len(tokens) : Survives(tokens[n])}}
            /\ \A k \in 1..Len(table) :
                  table[k][2] = Occurrences(tokens, table[k][1])
            /\ \A a, b \in 1..Len(table) : a # b => table[a][1] # table[b][1]
            /\ (\A k \in 1..Len(batch) :
                    "bot_id" \in DOMAIN batch[k] \/ "subtype" \in DOMAIN batch[k])
                  => table = <<>>
            /\ (\A k \in 1..Len(batch) :
                    "text" \in DOMAIN batch[k] =>
                        \A t \in 1..Len(Words(batch[k].text)) :
                            \/ Words(batch[k].text)[t] \in stop_words
                            \/ Len(Words(batch[k].text)[t]) < 2)
                  => table = <<>>

C7_Witness ==
    /\ Answered(calls[1], "analyze_channel_word_frequency")
    /\ Batch(calls[1]) = <<Human(Text4), Human(Text5)>>
    /\ calls[1].result.value =
          <<<<Hello, 1>>, <<<<"w", "o", "r", "l", "d", "_", "1">>, 1>>,
            <<<<"U+C6B0", "U+B9AC">>, 1>>, <<Test, 1>>>>

(***************************************************************************)
(* C8: the output of analyze_channel_word_frequency lists each surviving   *)
(* word once with the number of its occurrences, by count descending and,  *)
(* among equal counts, by first appearance (messages in fetched order,     *)
(* tokens left to right); the batch <<"hello hello world", "world test">>  *)
(* gives <<hello 2, world 2, test 1>>.                                     *)
(***************************************************************************)
C8_RankedByCountThenFirstSeen ==
    LET c == calls[1] IN
    Answered(c, "analyze_channel_word_frequency") =>
        LET out    == c.result.value
            batch  == Batch(c)
            tokens == TokensOf(batch)
        IN  /\ \A a, b \in 1..Len(out) :
                  a < b =>
                     /\ out[a][1] # out[b][1]
                     /\ out[a][2] >= out[b][2]
                     /\ out[a][2] = out[b][2] =>
                           FirstPlace(tokens, out[a][1]) < FirstPlace(tokens, out[b][1])
            /\ \A a \in 1..Len(out) :
                  /\ Survives(out[a][1])
                  /\ out[a][2] = Occurrences(tokens, out[a][1])
            /\ \A k \in 1..Len(tokens) :
                  Survives(tokens[k]) => \E a \in 1..Len(out) : out[a][1] = tokens[k]
            /\ batch = <<Human(Text1), Human(Text2)>> =>
                  out = <<<<Hello, 2>>, <<World, 2>>, <<Test, 1>>>>

C8_Witness ==
    /\ Answered(calls[1], "analyze_channel_word_frequency")
    /\ Batch(calls[1]) = <<Human(Text1), Human(Text2)>>
    /\ calls[1].result.value = <<<<Hello, 2>>, <<World, 2>>, <<Test, 1>>>>

(***************************************************************************)
(* C9: in the report of get_top_words_in_channel every entry's percentage  *)
(* is its count times 100 over the number of all tokens analyzed (the      *)
(* whole table, not the entries reported and not the messages), rounded to *)
(* two decimals; the report of a fetched batch is a success result also    *)
(* when no token was analyzed, and then reports no percentage but 0.       *)
(* Percentages are in hundredths of a percent.                             *)
(***************************************************************************)
C9_PercentageOfAllTokens ==
    LET c == calls[1] IN
    Answered(c, "get_top_words_in_channel") =>
        LET tokens == TokensOf(Batch(c))
            total  == Cardinality({k \in 1..Len(tokens) : Survives(tokens[k])})
            top    == c.result.top_words
        IN  /\ c.result.success = TRUE
            /\ c.result.analysis_stats.total_words_analyzed = total
            /\ \A k \in 1..Len(top) :
                  /\ top[k].count = Occurrences(tokens, top[k].word)
                  /\ total > 0
                  /\ 2 * (top[k].percentage * total - 10000 * top[k].count) <= total
                  /\ 2 * (10000 * top[k].count - top[k].percentage * total) <= total
            /\ total = 0 => \A k \in 1..Len(top) : top[k].percentage = 0

\* the first of three words, two of five tokens, is reported alone at 40.00
C9_Witness ==
    /\ Answered(calls[1], "get_top_words_in_channel")
    /\ calls[1].args.top_n = 1
    /\ Batch(calls[1]) = <<Human(Text1), Human(Text2)>>
    /\ calls[1].result.analysis_stats.total_words_analyzed = 5
    /\ calls[1].result.top_words = <<[word |-> Hello, count |-> 2, percentage |-> 4000]>>

NotDeleted(u) == ~("deleted" \in DOMAIN u /\ u.deleted = TRUE)

(***************************************************************************)
(* C10: get_slack_users, answered with a member list, returns the          *)
(* projections of exactly the members whose deleted flag is not true, in   *)
(* the order of the list, and total_count is their number; one deleted     *)
(* member among three gives total_count 2 and no projection of that member.*)
(***************************************************************************)
C10_DeletedUsersDropped ==
    LET c == calls[1] IN
    Answered(c, "get_slack_users") =>
        LET members == Get(c.responses[1].body.value, "members", <<>>)
            kept    == SelectSeq(members, NotDeleted)
        IN  /\ c.result.success = TRUE
            /\ Len(c.result.users) = Len(kept)
            /\ \A k \in 1..Len(kept) :
                  /\ c.result.users[k].id = kept[k].id
                  /\ c.result.users[k].name = kept[k].name
            /\ c.result.total_count = Len(c.result.users)
            /\ c.result.total_count =
                  Cardinality({k \in 1..Len(members) : NotDeleted(members[k])})

C10_Witness ==
    /\ Answered(calls[1], "get_slack_users")
    /\ Len(Get(calls[1].responses[1].body.value, "members", <<>>)) = 3
    /\ calls[1].responses[1].body.value.members[2].id = "U2"
    /\ calls[1].responses[1].body.value.members[2].deleted = TRUE
    /\ calls[1].result.total_count = 2
    /\ calls[1].result.users[1].id = "U1"
    /\ calls[1].result.users[2].id = "U3"

====
